---- MODULE Spec2Model ----
(***************************************************************************)
(* Model of the release packaging pipeline of build/archive.js: option     *)
(* parsing, tag resolution, pending-changes check, checkout, the           *)
(* test/lint/build tasks, npm pack and the terminal handlers.              *)
(*                                                                         *)
(* JavaScript values are records [type, num, text, lines].  The stdout of  *)
(* a subprocess is a sequence of newline-terminated lines (a word, or ""   *)
(* for a blank line); trimmed, the same lines separated by newlines.       *)
(* Other strings are TLA+ strings.                                         *)
(***************************************************************************)
EXTENDS Integers, Sequences, FiniteSets, TLC

\* ---------------------------------------------------------------- bounds
MaxTokens == 3          \* longest option list handed to the pack task
MaxLines == 2           \* longest stdout (in lines) of `git tag --list`
MaxExitCode == 2        \* largest exit code a test/lint tool reports

\* ------------------------------------------------------------ JS values
NULL == "<null>"        \* the value null where a string is expected
NoValue == [type |-> "undefined", num |-> 0, text |-> "", lines |-> <<>>]
Num(n) == [type |-> "number", num |-> n, text |-> "", lines |-> <<>>]
Str(s) == [type |-> "string", num |-> 0, text |-> s, lines |-> <<>>]
Err(m) == [type |-> "Error", num |-> 0, text |-> m, lines |-> <<>>]
Out(l) == [type |-> "stdout", num |-> 0, text |-> "", lines |-> l]

Falsy(s) == s = "" \/ s = NULL

\* ------------------------------------------------------- option tokens
Tokens == {"Allow-Pending", "no-test", "NO-LINT", "no-build",
           "", "current", "v1.3.0", "Help"}

ToLowerCase(s) ==
    CASE s = "Allow-Pending" -> "allow-pending"
      [] s = "NO-LINT" -> "no-lint"
      [] s = "Help" -> "help"
      [] OTHER -> s

SeqsUpTo(S, n) == UNION {[1..k -> S] : k \in 0..n}

OptionLists == SeqsUpTo(Tokens, MaxTokens)

\* ------------------------------------------------------- error messages
TagAlreadySet == "Error: Can't set tag name when it is already set."
NoRecentTag == "Error: Couldn't find the most recent tag name - please specify a tag or branch explicitly."
PendingAbort == "Error: Aborting because there are pending changes."

\* Mutant: every failure exits with code 1.
ErrorCodeOne(error) == 1

\* Mutant: the rejection value is printed whatever its type.
ErrorReportPlain(error, task) == [fmt |-> "%s", arg |-> error.text]

\* handleError: the exit code and the printed message
ErrorCode(error) == IF error.type = "number" THEN error.num ELSE 1

ErrorReport(error, task) ==
    IF error.type = "number"
    THEN [fmt |-> "Error: Task '%s' failed.", arg |-> task]
    ELSE [fmt |-> "%s",
          arg |-> IF error.type = "Error" /\ error.text = ""
                  THEN "Error" ELSE error.text]

NoReport == [fmt |-> "", arg |-> ""]

\* -------------------------------------------------------- processOptions
\* Parser state: the module-level option variables, plus whether
\* handleError has ended the process part-way through the forEach.
OptState == [allowPending |-> FALSE, tagName |-> "", noTest |-> FALSE,
             noLint |-> FALSE, noBuild |-> FALSE, exited |-> FALSE]

\* Mutant: the flags are compared without toLowerCase.
ProcessOptionCaseSensitive(st, option) ==
    CASE option = "allow-pending" -> [st EXCEPT !.allowPending = TRUE]
      [] option = "no-test" -> [st EXCEPT !.noTest = TRUE]
      [] option = "no-lint" -> [st EXCEPT !.noLint = TRUE]
      [] option = "no-build" -> [st EXCEPT !.noBuild = TRUE]
      [] OTHER -> IF ~Falsy(st.tagName)
                  THEN [st EXCEPT !.exited = TRUE]
                  ELSE [st EXCEPT !.tagName = option]

ProcessOption(st, option) ==
    LET lowerCaseOption == ToLowerCase(option) IN
    CASE lowerCaseOption = "allow-pending" -> [st EXCEPT !.allowPending = TRUE]
      [] lowerCaseOption = "no-test" -> [st EXCEPT !.noTest = TRUE]
      [] lowerCaseOption = "no-lint" -> [st EXCEPT !.noLint = TRUE]
      [] lowerCaseOption = "no-build" -> [st EXCEPT !.noBuild = TRUE]
      [] OTHER -> IF ~Falsy(st.tagName)
                  THEN [st EXCEPT !.exited = TRUE]
                  ELSE [st EXCEPT !.tagName = option]

RECURSIVE ProcessFrom(_, _, _)
ProcessFrom(st, opts, i) ==
    IF i > Len(opts) \/ st.exited THEN st
    ELSE ProcessFrom(ProcessOption(st, opts[i]), opts, i + 1)

ProcessOptions(opts) == ProcessFrom(OptState, opts, 1)

\* Mutant: help is recognised anywhere in the list.
IsHelpAnywhere(opts) == \E i \in 1..Len(opts) : ToLowerCase(opts[i]) = "help"

IsHelp(opts) == Len(opts) = 1 /\ ToLowerCase(opts[1]) = "help"

\* ------------------------------------------------------ subprocess text
\* String.prototype.trim on stdout: blank lines at both ends are dropped.
RECURSIVE TrimLeft(_)
TrimLeft(l) == IF l # <<>> /\ Head(l) = "" THEN TrimLeft(Tail(l)) ELSE l

RECURSIVE TrimRight(_)
TrimRight(l) ==
    IF l # <<>> /\ l[Len(l)] = "" THEN TrimRight(SubSeq(l, 1, Len(l) - 1)) ELSE l

Trim(l) == TrimRight(TrimLeft(l))

NonBlank(w) == w # ""

\* String.prototype.split(/\s+/): runs of whitespace separate the words; the
\* empty string splits to [''], whitespace at an end leaves a '' there.
Split(l) ==
    IF l = <<>> THEN <<"">>
    ELSE (IF Head(l) = "" THEN <<"">> ELSE <<>>)
         \o SelectSeq(l, NonBlank)
         \o (IF Len(l) > 1 /\ l[Len(l)] = "" THEN <<"">> ELSE <<>>)

\* A one-word string as the text exec resolves with.
Text(s) == IF s = "" THEN <<>> ELSE <<s>>

\* ----------------------------------------------------------------- semver
\* value.replace(/^v/, '')
StripV(s) ==
    CASE s = "v1.2.0" -> "1.2.0"
      [] s = "v1.3.0" -> "1.3.0"
      [] OTHER -> s

SemverParse(s) ==
    CASE s = "1.2.0" -> <<1, 2, 0>>
      [] s = "1.3.0" -> <<1, 3, 0>>
      [] OTHER -> <<>>

SemverValid(s) == SemverParse(s) # <<>>

Greater(a, b) ==
    \/ a[1] > b[1]
    \/ a[1] = b[1] /\ a[2] > b[2]
    \/ a[1] = b[1] /\ a[2] = b[2] /\ a[3] > b[3]

\* semver.gt: "throw" on an invalid version, unless the installed semver is
\* one of the lenient releases that answer false.
SemverGt(a, b, lenient) ==
    IF ~SemverValid(a) \/ ~SemverValid(b)
    THEN IF lenient THEN "false" ELSE "throw"
    ELSE IF Greater(SemverParse(a), SemverParse(b)) THEN "true" ELSE "false"

Threw == [threw |-> TRUE, val |-> ""]
Ret(v) == [threw |-> FALSE, val |-> v]

\* The reduce callback of verifyTagName.
BestTag(currentBest, value, lenient) ==
    LET modifiedValue == StripV(value) IN
    IF SemverValid(modifiedValue)
    THEN IF Falsy(currentBest) THEN Ret(value)
         ELSE LET gt == SemverGt(StripV(currentBest), modifiedValue, lenient) IN
              CASE gt = "throw" -> Threw
                [] gt = "true" -> Ret(currentBest)
                [] OTHER -> Ret(value)
    ELSE IF ~Falsy(currentBest) THEN Ret(currentBest) ELSE Ret(NULL)

\* Array.prototype.reduce without an initial value: the first element seeds
\* the accumulator and the callback runs from the second element on.
RECURSIVE ReduceFrom(_, _, _, _)
ReduceFrom(acc, arr, i, lenient) ==
    IF acc.threw \/ i > Len(arr) THEN acc
    ELSE ReduceFrom(BestTag(acc.val, arr[i], lenient), arr, i + 1, lenient)

Reduce(arr, lenient) == ReduceFrom(Ret(arr[1]), arr, 2, lenient)

\* ------------------------------------------------------------ environment
GitTagList == [cmd |-> "git tag --list", arg |-> ""]
GitStatus == [cmd |-> "git status --porcelain", arg |-> ""]
GitCurrentRef == [cmd |-> "git symbolic-ref -q --short HEAD || git describe --tags --exact-match", arg |-> ""]
GitCheckout(tag) == [cmd |-> "git checkout -q", arg |-> tag]
NpmPack == [cmd |-> "npm pack", arg |-> ""]
Task(name) == [cmd |-> "task", arg |-> name]

TagLines == {"", "v1.2.0", "1.3.0", "v1.3.0", "nightly"}

Stdouts(c) ==
    CASE c = GitTagList -> SeqsUpTo(TagLines, MaxLines)
      [] c = GitStatus -> {<<>>, <<"">>, <<"M Jakefile", "">>}
      [] c = GitCurrentRef -> {<<"master", "">>, <<"v1.3.0", "">>}
      [] c = NpmPack -> {<<>>, <<"ripple-emulator-0.9.tgz", "">>}
      [] OTHER -> {<<>>}

Stderrs == {"", "fatal: not a git repository"}
ExecErrors == {NoValue, Err("Command failed")}

\* Mutant: only err rejects; output on stderr is ignored.
ExecResultIgnoreStderr(err, stdout, stderr) ==
    IF err.type # "undefined"
    THEN [ok |-> FALSE, val |-> err]
    ELSE [ok |-> TRUE, val |-> Out(Trim(stdout))]

\* The callback of exec: reject with err || stderr, else resolve with the
\* trimmed stdout.
ExecResult(err, stdout, stderr) ==
    LET e == IF err.type # "undefined" THEN err ELSE Str(stderr) IN
    IF (e.type = "Error" \/ e.text # "") \/ stderr # ""
    THEN [ok |-> FALSE, val |-> e]
    ELSE [ok |-> TRUE, val |-> Out(Trim(stdout))]

\* Codes the task promises reject with: build/build.js calls done(1); the
\* test and lint tools report their own non-zero exit code.
BuildRejectCodes == {1}
ToolRejectCodes == 1..MaxExitCode
RejectCodes(name) == IF name = "Build" THEN BuildRejectCodes ELSE ToolRejectCodes

SkipWarning(taskName) ==
    CASE taskName = "Test" -> "Didn't run task 'Test'"
      [] taskName = "Lint" -> "Didn't run task 'Lint'"
      [] OTHER -> "Didn't run task 'Build'"
CurrentWarning == "The package was built from currently checked out files, which may not correctly reflect the package version."
PendingWarning == "There are pending local changes."

StageOrder == <<"verifyTagName", "checkPendingChanges", "checkoutTag", "runTests",
                "runLint", "runBuild", "buildPackage", "done">>

\* ------------------------------------------------------------------ state
VARIABLES
    options,        \* the token list the task is about to be invoked with
    allowPending, tagName, noTest, noLint, noBuild,   \* module-level options
    currentTask,    \* name of the last task started ("undefined" before)
    warnings,       \* registered warnings (undefined is the empty list)
    pc,             \* "idle", "usage" (help returned), "chain", "exited"
    stage,          \* the last stage function the chain has called
    promise,        \* state of the promise that stage returned
    value,          \* the value it settled with
    inflight,       \* subprocesses and tasks whose callback has not fired
    settled,        \* resolved exec deferreds whose then-callback is due
    started,        \* stage functions called, in order
    cmds,           \* command lines handed to child_process.exec, in order
    tasksRun,       \* task.promise() calls, in order
    errCalls,       \* number of handleError calls
    exitCode,       \* argument of process.exit, once pc = "exited"
    report,         \* the message handleError printed
    tagList         \* the tags `git tag --list` printed, once it has (else <<>>)

\* State of the other components, which the pack pipeline never touches.
VARIABLES
    child,          \* what a subprocess started by exec will hand its callback
    props,          \* emulatorBridge: own property descriptors, by <<object, key>>
    cells,          \* the closure variable obj of each marshal call, in order
    bwin, bdoc, bxhr,   \* _win, _doc, _xhr
    bpc,            \* "off", "loaded", "ready" (init returned), "threw"
    sandbox,        \* keys the platform builder puts into the sandbox
    prior,          \* props as they were before init
    lastWritten     \* per key, the last value assigned through either object

bridgeVars == <<props, cells, bwin, bdoc, bxhr, bpc, sandbox, prior, lastWritten>>
\* State of the build orchestrator.
VARIABLES
    bopts,          \* the opts argument: given or not, and its compress field
    caller,         \* "callback": build(ext, opts, done); "none": no done;
                    \* "promise": build.promise(ext, opts)
    behave,         \* what each stage does when the workflow calls it
    chain,          \* the workflow the call built
    ran,            \* stages the workflow has called, in order
    finished,       \* stages that returned or passed the baton, in order
    waiting,        \* the stage holding the baton, "" if none
    bstate,         \* "off", "new", "running", "completed", "failed", "crashed"
    doneRuns,       \* each run of _done: with an error or not, and the stages
                    \* finished by then
    doneCalls,      \* arguments of the calls of the completion callback
    exits,          \* arguments of the calls of process.exit
    deferred,       \* state and value of the deferred of build.promise
    settles         \* the resolve and reject calls made on that deferred

buildVars == <<bopts, caller, behave, chain, ran, finished, waiting, bstate,
               doneRuns, doneCalls, exits, deferred, settles>>
extVars == <<child, bridgeVars, buildVars>>

NoChild == [err |-> NoValue, stdout |-> <<>>, stderr |-> ""]

\* --------------------------------------------------- property descriptors
Absent == [kind |-> "none", configurable |-> FALSE, enumerable |-> FALSE,
           val |-> "undefined", cell |-> 0]
Data(v, c, e) == [kind |-> "data", configurable |-> c, enumerable |-> e,
                  val |-> v, cell |-> 0]
\* {get: function () { return obj; }, set: function (v) { obj = v; }, ...}
Accessor(id, c, e) == [kind |-> "accessor", configurable |-> c, enumerable |-> e,
                       val |-> "undefined", cell |-> id]
\* __defineGetter__(prop, fn): a getter-only property, enumerable, configurable
Getter(fn) == [kind |-> "getter", configurable |-> TRUE, enumerable |-> TRUE,
               val |-> fn, cell |-> 0]

Windows == {"window", "win"}
SandboxKeys == {"cordova"}
MarshalKeys == {"tinyHippos", "XMLHttpRequest"} \cup SandboxKeys
InnerGetters == [innerWidth |-> "_window_innerWidth", innerHeight |-> "_window_innerHeight"]
ScreenGetters == [availWidth |-> "_screenAvailWidth", availHeight |-> "_screenAvailHeight",
                  width |-> "_screenWidth", height |-> "_screenHeight"]
ScreenOf(w) == IF w = "window" THEN "window.screen" ELSE "win.screen"
Slots ==
    (Windows \X (MarshalKeys \cup DOMAIN InnerGetters))
        \cup ({ScreenOf(w) : w \in Windows} \X DOMAIN ScreenGetters)

\* The value a key holds on a host object before init.
HostValue(o, k) ==
    CASE k = "tinyHippos" -> IF o = "window" THEN "window.tinyHippos" ELSE "win.tinyHippos"
      [] k = "XMLHttpRequest" ->
            IF o = "window" THEN "window.XMLHttpRequest" ELSE "win.XMLHttpRequest"
      [] OTHER -> IF o = "window" THEN "window.cordova" ELSE "win.cordova"
SandboxValue(k) == "sandbox.cordova"

\* What a marshaled key may be on a host object before init: no own property,
\* or a data property with either flag either way.
HostShapes == {<<"none", FALSE, FALSE>>}
                \cup {<<"data", c, e>> : c \in BOOLEAN, e \in BOOLEAN}
MarshalSlots == Windows \X MarshalKeys

\* A browser's innerWidth/innerHeight are own accessors of the window; the
\* screen dimensions live on the prototype of screen.
HostProps ==
    {[s \in Slots |->
        IF s \in MarshalSlots
        THEN IF f[s][1] = "none" THEN Absent
             ELSE Data(HostValue(s[1], s[2]), f[s][2], f[s][3])
        ELSE IF s[2] \in DOMAIN InnerGetters THEN Getter("native")
        ELSE Absent] : f \in [MarshalSlots -> HostShapes]}

NoWrite == "<none>"
IdleProps == [s \in Slots |-> Absent]
BridgeOff ==
    /\ props = IdleProps /\ prior = IdleProps /\ cells = <<>>
    /\ bwin = "undefined" /\ bdoc = "undefined" /\ bxhr = "undefined"
    /\ bpc = "off" /\ sandbox = {} /\ lastWritten = [k \in MarshalKeys |-> NoWrite]

\* ----------------------------------------------------- build orchestrator
Stages == {"clean", "pack", "hosted", "compress"}
\* return at once; take the baton and pass it later; throw; take the baton
\* and never pass it
Behaviours == {"sync", "async", "throw", "hang"}
CompressValues == {"undefined", "false", "true", "0", "1"}
Truthy(v) == v \in {"true", "1"}
NoOpts == [given |-> FALSE, compress |-> "undefined"]
OptsChoices == {NoOpts} \cup [given : {TRUE}, compress : CompressValues]
Callers == {"callback", "none", "promise"}
NoDeferred == [state |-> "none", value |-> NoValue]

BuildOff ==
    /\ bopts = NoOpts /\ caller = "none" /\ behave = [s \in Stages |-> "sync"]
    /\ chain = <<>> /\ ran = <<>> /\ finished = <<>> /\ waiting = ""
    /\ bstate = "off" /\ doneRuns = <<>> /\ doneCalls = <<>> /\ exits = <<>>
    /\ deferred = NoDeferred /\ settles = <<>>

ExtIdle == child = NoChild /\ BridgeOff /\ BuildOff

optVars == <<allowPending, noTest, noLint, noBuild>>
vars == <<options, allowPending, tagName, noTest, noLint, noBuild, currentTask,
          warnings, pc, stage, promise, value, inflight, settled, started, cmds,
          tasksRun, errCalls, exitCode, report, tagList, extVars>>

Init ==
    /\ options \in OptionLists
    /\ allowPending = FALSE /\ tagName = "" /\ noTest = FALSE
    /\ noLint = FALSE /\ noBuild = FALSE
    /\ currentTask = "undefined"
    /\ warnings = <<>>
    /\ pc = "idle"
    /\ stage = "none" /\ promise = "none" /\ value = NoValue
    /\ inflight = {} /\ settled = {}
    /\ started = <<>> /\ cmds = <<>> /\ tasksRun = <<>>
    /\ errCalls = 0 /\ exitCode = 0 /\ report = NoReport
    /\ tagList = <<>>
    /\ ExtIdle

\* ---------------------------------------------------------------- helpers
\* Mutant: the next stage is started as soon as the previous one was called.
SettledEarly(prev) == stage = prev /\ promise \in {"pending", "fulfilled"}

\* Mutant: the next stage is started whichever way the previous one settled.
SettledEitherWay(prev) == stage = prev /\ promise \in {"fulfilled", "rejected"}

\* The previous stage's promise is fulfilled: its then-callback may run.
Settled(prev) == stage = prev /\ promise = "fulfilled"

Begin(name) == stage' = name /\ started' = Append(started, name)

Exec(c) == inflight' = inflight \cup {c} /\ cmds' = Append(cmds, c)

\* Mutant: a stage's promise is never resolved.
FulfilLost(v) == promise' = "pending" /\ value' = v

Fulfil(v) == promise' = "fulfilled" /\ value' = v
Reject(e) == promise' = "rejected" /\ value' = e

RegisterWarning(msg) == warnings' = Append(warnings, msg)

\* handleError(error): print and process.exit(code)
HandleErrorCall(error) ==
    /\ errCalls' = errCalls + 1
    /\ report' = ErrorReport(error, currentTask)
    /\ exitCode' = ErrorCode(error)
    /\ pc' = "exited"

\* Mutant: pending changes never abort.
PendingVerdictNoAbort(result, allow) == IF result # <<>> THEN "warn" ELSE "ok"

\* checkPendingChanges' decision on the trimmed `git status` output.
PendingVerdict(result, allow) ==
    IF result # <<>> THEN (IF allow THEN "warn" ELSE "throw") ELSE "ok"

\* Mutant: the tag is checked out even when it is the current ref.
NeverCheckedOut(currentBranch, tag) == FALSE

\* currentBranch === tagName
AlreadyCheckedOut(currentBranch, tag) == currentBranch = Text(tag)

\* ---------------------------------------------------------------- actions
\* module.exports(options): help, processOptions, then verifyTagName().
Invoke ==
    /\ pc = "idle"
    /\ options' = <<>>
    /\ UNCHANGED <<extVars, currentTask, warnings, settled, tasksRun, tagList>>
    /\ IF IsHelp(options)
       THEN /\ pc' = "usage"
            /\ UNCHANGED <<optVars, tagName, stage, promise, value, inflight,
                           started, cmds, errCalls, exitCode, report>>
       ELSE LET st == ProcessOptions(options) IN
            /\ allowPending' = st.allowPending
            /\ noTest' = st.noTest
            /\ noLint' = st.noLint
            /\ noBuild' = st.noBuild
            /\ tagName' = st.tagName
            /\ IF st.exited
               THEN /\ HandleErrorCall(Str(TagAlreadySet))
                    /\ UNCHANGED <<stage, promise, value, inflight, started, cmds>>
               ELSE /\ pc' = "chain"
                    /\ Begin("verifyTagName")
                    /\ UNCHANGED <<errCalls, exitCode, report>>
                    /\ IF ~Falsy(st.tagName)
                       THEN Fulfil(NoValue) /\ UNCHANGED <<inflight, cmds>>
                       ELSE /\ Exec(GitTagList)
                            /\ promise' = "pending"
                            /\ UNCHANGED value

\* The callback child_process.exec calls when a subprocess has ended.  npm
\* pack's promise is the stage's own; the others have a then-callback.
ExecCallback ==
    /\ pc = "chain"
    /\ \E c \in inflight, err \in ExecErrors, stderr \in Stderrs :
         /\ c.cmd # "task"
         /\ \E stdout \in Stdouts(c) :
              LET r == ExecResult(err, stdout, stderr) IN
              /\ inflight' = inflight \ {c}
              /\ tagList' = IF r.ok /\ c = GitTagList THEN Split(r.val.lines) ELSE tagList
              /\ IF ~r.ok
                 THEN Reject(r.val) /\ UNCHANGED settled
                 ELSE IF c = NpmPack
                      THEN Fulfil(r.val) /\ UNCHANGED settled
                      ELSE /\ settled' = settled \cup {[cmd |-> c, out |-> r.val.lines]}
                           /\ UNCHANGED <<promise, value>>
    /\ UNCHANGED <<extVars, options, optVars, tagName, currentTask, warnings, pc,
                   stage, started, cmds, tasksRun, errCalls, exitCode, report>>

\* verifyTagName's then-callback on the tag list.
VerifyTagNameThen ==
    /\ pc = "chain"
    /\ \E r \in settled, lenient \in BOOLEAN :
         /\ r.cmd = GitTagList
         /\ settled' = settled \ {r}
         /\ LET best == Reduce(Split(r.out), lenient) IN
            IF best.threw
            THEN Reject(Err("Invalid Version")) /\ UNCHANGED tagName
            ELSE tagName' = best.val /\ Fulfil(NoValue)
    /\ UNCHANGED <<extVars, options, tagList, optVars, currentTask, warnings, pc, stage, inflight,
                   started, cmds, tasksRun, errCalls, exitCode, report>>

CheckPendingChanges ==
    /\ pc = "chain"
    /\ Settled("verifyTagName")
    /\ Begin("checkPendingChanges")
    /\ Exec(GitStatus)
    /\ promise' = "pending"
    /\ UNCHANGED <<extVars, options, tagList, optVars, tagName, currentTask, warnings, pc, value,
                   settled, tasksRun, errCalls, exitCode, report>>

\* checkPendingChanges' then-callback on the status output.
CheckPendingThen ==
    /\ pc = "chain"
    /\ \E r \in settled :
         /\ r.cmd = GitStatus
         /\ settled' = settled \ {r}
         /\ LET verdict == PendingVerdict(r.out, allowPending) IN
            CASE verdict = "warn" -> RegisterWarning(PendingWarning) /\ Fulfil(NoValue)
              [] verdict = "throw" -> Reject(Str(PendingAbort)) /\ UNCHANGED warnings
              [] OTHER -> Fulfil(NoValue) /\ UNCHANGED warnings
    /\ UNCHANGED <<extVars, options, tagList, optVars, tagName, currentTask, pc, stage, inflight,
                   started, cmds, tasksRun, errCalls, exitCode, report>>

CheckoutTag ==
    /\ pc = "chain"
    /\ Settled("checkPendingChanges")
    /\ Begin("checkoutTag")
    /\ IF Falsy(tagName)
       THEN Reject(Str(NoRecentTag)) /\ UNCHANGED <<warnings, inflight, cmds>>
       ELSE IF tagName = "current"
            THEN /\ RegisterWarning(CurrentWarning)
                 /\ Fulfil(NoValue)
                 /\ UNCHANGED <<inflight, cmds>>
            ELSE /\ Exec(GitCurrentRef)
                 /\ promise' = "pending"
                 /\ UNCHANGED <<warnings, value>>
    /\ UNCHANGED <<extVars, options, tagList, optVars, tagName, currentTask, pc, settled, tasksRun,
                   errCalls, exitCode, report>>

\* checkoutTag's then-callback on the current ref.
CheckoutThen ==
    /\ pc = "chain"
    /\ \E r \in settled :
         /\ r.cmd = GitCurrentRef
         /\ settled' = settled \ {r}
         /\ IF AlreadyCheckedOut(r.out, tagName)
            THEN Fulfil(NoValue) /\ UNCHANGED <<inflight, cmds>>
            ELSE Exec(GitCheckout(tagName)) /\ UNCHANGED <<promise, value>>
    /\ UNCHANGED <<extVars, options, tagList, optVars, tagName, currentTask, warnings, pc, stage,
                   started, tasksRun, errCalls, exitCode, report>>

\* The then-callback on `git checkout`.
CheckoutDone ==
    /\ pc = "chain"
    /\ \E r \in settled :
         /\ r.cmd.cmd = "git checkout -q"
         /\ settled' = settled \ {r}
         /\ Fulfil(NoValue)
    /\ UNCHANGED <<extVars, options, tagList, optVars, tagName, currentTask, warnings, pc, stage,
                   inflight, started, cmds, tasksRun, errCalls, exitCode, report>>

\* Mutant: a skipped task registers no warning.
RunTaskNoWarning(fn, prev, taskName, skip) ==
    /\ pc = "chain"
    /\ Settled(prev)
    /\ Begin(fn)
    /\ IF skip
       THEN /\ Fulfil(NoValue)
            /\ UNCHANGED <<currentTask, tasksRun, inflight, warnings>>
       ELSE /\ currentTask' = taskName
            /\ tasksRun' = Append(tasksRun, taskName)
            /\ inflight' = inflight \cup {Task(taskName)}
            /\ promise' = "pending"
            /\ UNCHANGED <<warnings, value>>
    /\ UNCHANGED <<extVars, options, tagList, optVars, tagName, pc, settled, cmds, errCalls,
                   exitCode, report>>

RunTask(fn, prev, taskName, skip) ==
    /\ pc = "chain"
    /\ Settled(prev)
    /\ Begin(fn)
    /\ IF skip
       THEN /\ RegisterWarning(SkipWarning(taskName))
            /\ Fulfil(NoValue)
            /\ UNCHANGED <<currentTask, tasksRun, inflight>>
       ELSE /\ currentTask' = taskName
            /\ tasksRun' = Append(tasksRun, taskName)
            /\ inflight' = inflight \cup {Task(taskName)}
            /\ promise' = "pending"
            /\ UNCHANGED <<warnings, value>>
    /\ UNCHANGED <<extVars, options, tagList, optVars, tagName, pc, settled, cmds, errCalls,
                   exitCode, report>>

RunTests == RunTask("runTests", "checkoutTag", "Test", noTest)
RunLint == RunTask("runLint", "runTests", "Lint", noLint)
RunBuild == RunTask("runBuild", "runLint", "Build", noBuild)

\* The promise of a running task settles.
TaskSettle ==
    /\ pc = "chain"
    /\ \E c \in inflight :
         /\ c.cmd = "task"
         /\ inflight' = inflight \ {c}
         /\ \/ Fulfil(NoValue)
            \/ \E code \in RejectCodes(c.arg) : Reject(Num(code))
    /\ UNCHANGED <<extVars, options, tagList, optVars, tagName, currentTask, warnings, pc, stage,
                   settled, started, cmds, tasksRun, errCalls, exitCode, report>>

BuildPackage ==
    /\ pc = "chain"
    /\ Settled("runBuild")
    /\ Begin("buildPackage")
    /\ Exec(NpmPack)
    /\ promise' = "pending"
    /\ UNCHANGED <<extVars, options, tagList, optVars, tagName, currentTask, warnings, pc, value,
                   settled, tasksRun, errCalls, exitCode, report>>

\* Mutant: done exits with 0 whatever npm pack printed.
DoneCodeZero(result) == 0

\* done(result): exit 0 for a truthy result, else 1
DoneCode(result) == IF result.lines # <<>> THEN 0 ELSE 1

\* done(result)
Done ==
    /\ pc = "chain"
    /\ Settled("buildPackage")
    /\ Begin("done")
    /\ pc' = "exited"
    /\ exitCode' = DoneCode(value)
    /\ UNCHANGED <<extVars, options, tagList, optVars, tagName, currentTask, warnings, promise,
                   value, inflight, settled, cmds, tasksRun, errCalls, report>>

\* .catch(handleError)
HandleError ==
    /\ pc = "chain"
    /\ promise = "rejected"
    /\ HandleErrorCall(value)
    /\ UNCHANGED <<extVars, options, tagList, optVars, tagName, currentTask, warnings, stage,
                   promise, value, inflight, settled, started, cmds, tasksRun>>

Next ==
    \/ Invoke
    \/ ExecCallback
    \/ VerifyTagNameThen
    \/ CheckPendingChanges
    \/ CheckPendingThen
    \/ CheckoutTag
    \/ CheckoutThen
    \/ CheckoutDone
    \/ RunTests
    \/ RunLint
    \/ RunBuild
    \/ TaskSettle
    \/ BuildPackage
    \/ Done
    \/ HandleError

Spec == Init /\ [][Next]_vars

\* Every promise callback that is due runs, and every subprocess and task
\* that was launched settles.
FairSpec == Spec /\ WF_vars(Next)

\* ------------------------------------------------------- exec on its own
\* One call of exec(cmdLine): the promise it returns, and the one callback
\* of the subprocess, whose arguments are in child.
ExecCmds == {GitTagList, GitStatus, NpmPack}

ExecInit ==
    /\ \E c \in ExecCmds :
         /\ inflight = {c} /\ cmds = <<c>>
         /\ child \in [err : ExecErrors, stdout : Stdouts(c), stderr : Stderrs]
    /\ options = <<>>
    /\ allowPending = FALSE /\ tagName = "" /\ noTest = FALSE
    /\ noLint = FALSE /\ noBuild = FALSE
    /\ currentTask = "undefined" /\ warnings = <<>>
    /\ pc = "chain" /\ stage = "none" /\ promise = "pending" /\ value = NoValue
    /\ settled = {} /\ started = <<>> /\ tasksRun = <<>>
    /\ errCalls = 0 /\ exitCode = 0 /\ report = NoReport /\ tagList = <<>>
    /\ BridgeOff /\ BuildOff

ExecFire ==
    /\ \E c \in inflight :
         LET r == ExecResult(child.err, child.stdout, child.stderr) IN
         /\ inflight' = inflight \ {c}
         /\ IF r.ok THEN Fulfil(r.val) ELSE Reject(r.val)
    /\ UNCHANGED <<extVars, options, optVars, tagName, currentTask, warnings, pc,
                   stage, settled, started, cmds, tasksRun, errCalls, exitCode,
                   report, tagList>>

ExecSpec == ExecInit /\ [][ExecFire]_vars

\* The pack pipeline at rest, while another component is the one running.
PackOff ==
    /\ options = <<>>
    /\ allowPending = FALSE /\ tagName = "" /\ noTest = FALSE
    /\ noLint = FALSE /\ noBuild = FALSE
    /\ currentTask = "undefined" /\ warnings = <<>>
    /\ pc = "exited" /\ stage = "none" /\ promise = "pending" /\ value = NoValue
    /\ inflight = {} /\ settled = {} /\ started = <<>> /\ cmds = <<>>
    /\ tasksRun = <<>> /\ errCalls = 0 /\ exitCode = 0 /\ report = NoReport
    /\ tagList = <<>>
    /\ child = NoChild

packVars == <<options, optVars, tagName, currentTask, warnings, pc, stage, promise,
              value, inflight, settled, started, cmds, tasksRun, errCalls, exitCode,
              report, tagList, child>>

\* ------------------------------------------------------- emulatorBridge
WriteValues == {"x", "y"}

\* Reading o[k]: an accessor returns its closure variable.
Get(p, c, o, k) ==
    LET d == p[<<o, k>>] IN
    CASE d.kind = "accessor" -> c[d.cell]
      [] d.kind = "none" -> "undefined"
      [] OTHER -> d.val

\* Object.defineProperty(o, k, desc) with an accessor descriptor, and
\* o.__defineGetter__(k, fn): a TypeError when o has k as a non-configurable
\* own property, and then nothing after it in init runs.
DefineProperty(st, o, k, desc) ==
    IF st.threw THEN st
    ELSE IF st.props[<<o, k>>].kind # "none" /\ ~st.props[<<o, k>>].configurable
         THEN [st EXCEPT !.threw = TRUE]
         ELSE [st EXCEPT !.props[<<o, k>>] = desc]

FlagFrom(existingDescriptor, flag) ==
    IF existingDescriptor.kind # "none" THEN existingDescriptor[flag] ELSE TRUE

\* A marshal that reads the global's descriptor once and uses it for both objects.
MarshalStaleDescriptor(st, obj, key) ==
    IF st.threw THEN st
    ELSE LET id == Len(st.cells) + 1
             st1 == [st EXCEPT !.cells = Append(@, obj)]
             d == st1.props[<<"window", key>>]
             st2 == DefineProperty(st1, "window", key,
                        Accessor(id, FlagFrom(d, "configurable"), FlagFrom(d, "enumerable")))
         IN  DefineProperty(st2, "win", key,
                        Accessor(id, FlagFrom(d, "configurable"), FlagFrom(d, "enumerable")))

\* A marshal whose two accessors each close over a variable of their own.
MarshalOwnCells(st, obj, key) ==
    IF st.threw THEN st
    ELSE LET id == Len(st.cells) + 1
             st1 == [st EXCEPT !.cells = Append(Append(@, obj), obj)]
             d1 == st1.props[<<"window", key>>]
             st2 == DefineProperty(st1, "window", key,
                        Accessor(id, FlagFrom(d1, "configurable"), FlagFrom(d1, "enumerable")))
             d2 == st2.props[<<"win", key>>]
         IN  DefineProperty(st2, "win", key,
                        Accessor(id + 1, FlagFrom(d2, "configurable"), FlagFrom(d2, "enumerable")))

\* marshal(obj, key): one closure variable obj, an accessor over it on the
\* global window and then on win, each with the flags of that object's own
\* existing descriptor.
Marshal(st, obj, key) ==
    IF st.threw THEN st
    ELSE LET id == Len(st.cells) + 1
             st1 == [st EXCEPT !.cells = Append(@, obj)]
             d1 == st1.props[<<"window", key>>]
             st2 == DefineProperty(st1, "window", key,
                        Accessor(id, FlagFrom(d1, "configurable"), FlagFrom(d1, "enumerable")))
             d2 == st2.props[<<"win", key>>]
         IN  DefineProperty(st2, "win", key,
                        Accessor(id, FlagFrom(d2, "configurable"), FlagFrom(d2, "enumerable")))

\* utils.forEach(sandbox, marshal), in the sandbox's key order.
RECURSIVE ForEachMarshal(_, _)
ForEachMarshal(st, keys) ==
    IF keys = {} THEN st
    ELSE LET k == CHOOSE x \in keys : TRUE
         IN  ForEachMarshal(Marshal(st, SandboxValue(k), k), keys \ {k})

RECURSIVE DefineGetters(_, _, _, _)
DefineGetters(st, o, getters, names) ==
    IF names = {} THEN st
    ELSE LET n == CHOOSE x \in names : TRUE
         IN  DefineGetters(DefineProperty(st, o, n, Getter(getters[n])),
                           o, getters, names \ {n})

MarshalScreen(st, w) ==
    DefineGetters(DefineGetters(st, ScreenOf(w), ScreenGetters, DOMAIN ScreenGetters),
                  w, InnerGetters, DOMAIN InnerGetters)

\* _xhr = win.XMLHttpRequest, read from the global window instead.
XhrFromGlobal(p, c) == Get(p, c, "window", "XMLHttpRequest")

\* _xhr = win.XMLHttpRequest
XhrAtInit(p, c) == Get(p, c, "win", "XMLHttpRequest")

BridgeInit ==
    /\ prior \in HostProps /\ props = prior /\ cells = <<>>
    /\ bwin = "undefined" /\ bdoc = "undefined" /\ bxhr = "undefined"
    /\ bpc = "loaded" /\ sandbox \in SUBSET SandboxKeys
    /\ lastWritten = [k \in MarshalKeys |-> NoWrite]
    /\ PackOff /\ BuildOff

\* init(win, doc). platform.current().initialize and builder.build belong to
\* other modules: the sandbox they produce is the input drawn at the start.
InitBridge ==
    /\ bpc = "loaded"
    /\ LET st0 == [props |-> props, cells |-> cells, threw |-> FALSE]
           st1 == Marshal(st0, Get(st0.props, st0.cells, "window", "tinyHippos"),
                          "tinyHippos")
           st2 == Marshal(st1, Get(st1.props, st1.cells, "window", "XMLHttpRequest"),
                          "XMLHttpRequest")
           st3 == ForEachMarshal(st2, sandbox)
           st4 == MarshalScreen(MarshalScreen(st3, "win"), "window")
       IN  /\ props' = st4.props
           /\ cells' = st4.cells
           /\ bpc' = IF st4.threw THEN "threw" ELSE "ready"
    /\ bwin' = "win" /\ bdoc' = "doc" /\ bxhr' = XhrAtInit(props, cells)
    /\ UNCHANGED <<packVars, buildVars, sandbox, prior, lastWritten>>

\* o[k] = v on a marshaled key: the accessor's set function.
Write(o, k, v) ==
    /\ bpc \in {"ready", "threw"}
    /\ props[<<o, k>>].kind = "accessor"
    /\ cells' = [cells EXCEPT ![props[<<o, k>>].cell] = v]
    /\ lastWritten' = [lastWritten EXCEPT ![k] = v]
    /\ UNCHANGED <<packVars, buildVars, props, bwin, bdoc, bxhr, bpc, sandbox, prior>>

WriteAny == \E o \in Windows, k \in MarshalKeys, v \in WriteValues : Write(o, k, v)

BridgeNext == InitBridge \/ WriteAny
BridgeSpec == BridgeInit /\ [][BridgeNext]_vars

\* ----------------------------------------------------- build orchestrator
\* A workflow with compress whatever opts says.
WorkflowAlwaysCompress(o) == <<"clean", "pack", "hosted", "compress">>

\* jWorkflow.order(clean).andThen(pack).andThen(hosted), and
\* andThen(compress) if opts.compress; opts = opts || {}.
Workflow(o) ==
    <<"clean", "pack", "hosted">>
        \o (IF Truthy(o.compress) THEN <<"compress">> ELSE <<>>)

\* The workflow from its i-th stage on: each stage is called with the baton,
\* and the next one follows at once unless the stage took the baton or threw.
RECURSIVE RunFrom(_, _, _, _, _)
RunFrom(ch, bh, i, rn, fin) ==
    IF i > Len(ch)
    THEN [ran |-> rn, finished |-> fin, outcome |-> "end", waiting |-> ""]
    ELSE CASE bh[ch[i]] = "sync" ->
                RunFrom(ch, bh, i + 1, Append(rn, ch[i]), Append(fin, ch[i]))
           [] bh[ch[i]] = "throw" ->
                [ran |-> Append(rn, ch[i]), finished |-> fin,
                 outcome |-> "throw", waiting |-> ""]
           [] OTHER ->
                [ran |-> Append(rn, ch[i]), finished |-> fin,
                 outcome |-> "wait", waiting |-> ch[i]]

\* A callback that resolves whatever code it is given.
PromiseCallbackResolves(code) == "resolve"

\* function (code) { if (code) d.reject(code); else d.resolve(); }
PromiseCallback(code) == IF code = NoValue THEN "resolve" ELSE "reject"

\* A deferred settles on the first resolve or reject and ignores the rest.
Settle(d, how, code) ==
    IF d.state # "pending" THEN d
    ELSE IF how = "resolve" THEN [state |-> "resolved", value |-> NoValue]
    ELSE [state |-> "rejected", value |-> code]

\* _done(error, done): (done || process.exit)(1) on an error, and
\* (done || process.exit)() otherwise.
DoneArg(error) == IF error THEN Num(1) ELSE NoValue

BuildDone(error, fin) ==
    /\ doneRuns' = Append(doneRuns, [error |-> error, after |-> fin])
    /\ IF caller = "none"
       THEN /\ exits' = Append(exits, DoneArg(error))
            /\ UNCHANGED <<doneCalls, deferred, settles>>
       ELSE /\ doneCalls' = Append(doneCalls, DoneArg(error))
            /\ exits' = exits
            /\ IF caller = "promise"
               THEN /\ settles' = Append(settles, PromiseCallback(DoneArg(error)))
                    /\ deferred' = Settle(deferred, PromiseCallback(DoneArg(error)),
                                          DoneArg(error))
               ELSE UNCHANGED <<deferred, settles>>

NoDone == UNCHANGED <<doneRuns, doneCalls, exits, deferred, settles>>

BuildInit ==
    /\ bopts \in OptsChoices /\ caller \in Callers
    /\ behave \in [Stages -> Behaviours]
    /\ chain = <<>> /\ ran = <<>> /\ finished = <<>> /\ waiting = ""
    /\ bstate = "new" /\ doneRuns = <<>> /\ doneCalls = <<>> /\ exits = <<>>
    /\ deferred = IF caller = "promise" THEN [state |-> "pending", value |-> NoValue]
                  ELSE NoDeferred
    /\ settles = <<>>
    /\ PackOff /\ BridgeOff

\* build(ext, opts, done), up to its return: the stages that follow one
\* another at once run inside the try of _handle.
Build ==
    /\ bstate = "new"
    /\ LET r == RunFrom(Workflow(bopts), behave, 1, <<>>, <<>>) IN
       /\ chain' = Workflow(bopts)
       /\ ran' = r.ran /\ finished' = r.finished /\ waiting' = r.waiting
       /\ CASE r.outcome = "end" ->
                 bstate' = "completed" /\ BuildDone(FALSE, r.finished)
            [] r.outcome = "throw" ->
                 bstate' = "failed" /\ BuildDone(TRUE, r.finished)
            [] OTHER -> bstate' = "running" /\ NoDone
    /\ UNCHANGED <<packVars, bridgeVars, bopts, caller, behave>>

\* The stage holding the baton passes it, from a later turn of the event
\* loop: nothing catches what a stage throws from here on.
Pass ==
    /\ bstate = "running"
    /\ behave[waiting] = "async"
    /\ LET r == RunFrom(chain, behave, Len(ran) + 1, ran, Append(finished, waiting)) IN
       /\ ran' = r.ran /\ finished' = r.finished /\ waiting' = r.waiting
       /\ CASE r.outcome = "end" ->
                 bstate' = "completed" /\ BuildDone(FALSE, r.finished)
            [] r.outcome = "throw" -> bstate' = "crashed" /\ NoDone
            [] OTHER -> bstate' = "running" /\ NoDone
    /\ UNCHANGED <<packVars, bridgeVars, bopts, caller, behave, chain>>

BuildNext == Build \/ Pass
BuildSpec == BuildInit /\ [][BuildNext]_vars

\* ================================================================= claims
Range(q) == {q[i] : i \in 1..Len(q)}
Count(q, x) == Cardinality({i \in 1..Len(q) : q[i] = x})
IsPrefix(p, q) == Len(p) <= Len(q) /\ \A i \in 1..Len(p) : p[i] = q[i]
NoRepeat(q) == \A i, j \in 1..Len(q) : q[i] = q[j] => i = j
Last(q) == q[Len(q)]
TaskStages == {"runTests", "runLint", "runBuild"}
TaskOf(fn) ==
    CASE fn = "runTests" -> "Test" [] fn = "runLint" -> "Lint" [] OTHER -> "Build"

\* C1: the stages start in the fixed order verifyTagName, checkPendingChanges,
\* checkoutTag, runTests, runLint, runBuild, buildPackage, done, none of them
\* twice; at most one subprocess or task is in progress at any time; and a
\* stage is started only when the previous stage's promise is fulfilled and
\* nothing is in progress.
C1_StagesInOrder ==
    /\ [](IsPrefix(started, StageOrder) /\ Cardinality(inflight) <= 1)
    /\ [][(started' # started /\ started # <<>>) =>
             (promise = "fulfilled" /\ inflight = {} /\ settled = {})]_vars

C1_Witness ==
    /\ pc = "exited" /\ started = StageOrder /\ exitCode = 0
    /\ Len(cmds) = 5 /\ tasksRun = <<"Test", "Lint", "Build">>

\* C2: once a stage's promise is rejected no stage is started and no
\* subprocess or task is launched any more: the one step left is handleError,
\* which runs once and exits the process with a non-zero code; nothing happens
\* after the exit, and no command or task is ever launched a second time.
C2_FailureIsFatal ==
    /\ [](errCalls <= 1 /\ NoRepeat(cmds) /\ NoRepeat(tasksRun))
    /\ [](errCalls = 1 => pc = "exited" /\ exitCode # 0)
    /\ [][promise = "rejected" =>
             /\ started' = started /\ cmds' = cmds /\ tasksRun' = tasksRun
             /\ inflight' = inflight
             /\ errCalls' = errCalls + 1]_vars
    /\ [][pc # "exited"]_vars

C2_Witness ==
    /\ pc = "exited" /\ errCalls = 1 /\ stage = "runLint"
    /\ value = Num(MaxExitCode) /\ exitCode # 0
    /\ tasksRun = <<"Test", "Lint">> /\ NpmPack \notin Range(cmds)

\* The tag list has been printed and verifyTagName's callback has run on it.
TagsResolved == tagList # <<>> /\ \A r \in settled : r.cmd # GitTagList
ValidTags == {t \in Range(tagList) : SemverValid(StripV(t))}
IsCheckout(c) == c.cmd = "git checkout -q"
Checkouts == {i \in 1..Len(cmds) : IsCheckout(cmds[i])}

\* C3: when the tag name is taken from `git tag --list`, it is the highest
\* valid semantic version of the list (leading v ignored) whenever the list
\* holds a valid one, and it is never an invalid tag of the list.
C3_HighestValidTag ==
    TagsResolved =>
        /\ ValidTags # {} =>
             /\ tagName \in ValidTags
             /\ \A u \in ValidTags :
                  ~Greater(SemverParse(StripV(u)), SemverParse(StripV(tagName)))
        /\ Falsy(tagName) \/ tagName \in ValidTags

\* C4: when the tag name is taken from `git tag --list` and the list holds no
\* valid semantic version, no git checkout, task or npm pack is ever run, the
\* process exits with code 1 and, where the run got as far as the checkout
\* stage, the error reported is the missing-tag error.
C4_NoTagNoCheckout ==
    (TagsResolved /\ ValidTags = {}) =>
        /\ Checkouts = {} /\ tasksRun = <<>> /\ NpmPack \notin Range(cmds)
        /\ pc = "exited" =>
             /\ exitCode = 1
             /\ "checkoutTag" \in Range(started) =>
                  report = ErrorReport(Str(NoRecentTag), currentTask)

\* C5: the status callback aborts with the pending-changes error exactly when
\* the trimmed output is non-empty and allow-pending is unset, and then no
\* current-ref query, checkout, task or npm pack is ever run; with
\* allow-pending it registers the pending warning (once in a run) and the
\* chain goes on to checkout; without pending changes it registers nothing.
C5_PendingChanges ==
    /\ [][\A r \in settled : (r.cmd = GitStatus /\ r \notin settled') =>
            IF r.out = <<>>
            THEN warnings' = warnings /\ promise' = "fulfilled"
            ELSE IF allowPending
                 THEN /\ warnings' = Append(warnings, PendingWarning)
                      /\ promise' = "fulfilled"
                 ELSE /\ promise' = "rejected" /\ value' = Str(PendingAbort)
                      /\ warnings' = warnings]_vars
    /\ [](value = Str(PendingAbort) =>
            /\ ~allowPending /\ stage = "checkPendingChanges"
            /\ GitCurrentRef \notin Range(cmds) /\ Checkouts = {}
            /\ tasksRun = <<>> /\ NpmPack \notin Range(cmds))
    /\ [](/\ Count(warnings, PendingWarning) <= 1
          /\ PendingWarning \in Range(warnings) => allowPending)
    /\ []((pc = "chain" /\ stage = "checkPendingChanges" /\ promise = "fulfilled")
            => ENABLED CheckoutTag)

C5_Witness ==
    /\ pc = "exited" /\ value = Str(PendingAbort) /\ exitCode = 1
    /\ report = ErrorReport(Str(PendingAbort), currentTask)
    /\ Last(cmds) = GitStatus

SkipFlag(fn) ==
    CASE fn = "runTests" -> noTest [] fn = "runLint" -> noLint [] OTHER -> noBuild

\* C6: a test/lint/build stage whose no-* flag is set invokes no task, is
\* fulfilled at once and appends the one warning naming its task; one whose
\* flag is unset invokes its task (once in a run) and appends no warning.
\* With all three flags set, no pending warning and a tag other than
\* 'current', the warnings at the package stage are exactly the three skip
\* warnings.
C6_SkippableTasks ==
    /\ [][\A fn \in TaskStages : started' = Append(started, fn) =>
            IF SkipFlag(fn)
            THEN /\ tasksRun' = tasksRun /\ inflight' = inflight
                 /\ promise' = "fulfilled"
                 /\ warnings' = Append(warnings, SkipWarning(TaskOf(fn)))
            ELSE /\ tasksRun' = Append(tasksRun, TaskOf(fn))
                 /\ Task(TaskOf(fn)) \in inflight'
                 /\ warnings' = warnings]_vars
    /\ [](\A fn \in TaskStages :
            /\ Count(tasksRun, TaskOf(fn)) <= 1
            /\ Count(warnings, SkipWarning(TaskOf(fn))) <= 1
            /\ (pc # "idle" /\ SkipFlag(fn)) => TaskOf(fn) \notin Range(tasksRun)
            /\ ~SkipFlag(fn) => SkipWarning(TaskOf(fn)) \notin Range(warnings))
    /\ []((/\ noTest /\ noLint /\ noBuild /\ stage = "buildPackage"
           /\ PendingWarning \notin Range(warnings) /\ tagName # "current")
            => /\ Len(warnings) = 3
               /\ warnings = <<SkipWarning("Test"), SkipWarning("Lint"),
                               SkipWarning("Build")>>
               /\ tasksRun = <<>>)

C6_Witness ==
    /\ noTest /\ noLint /\ noBuild /\ stage = "buildPackage"
    /\ NpmPack \in inflight /\ Len(warnings) = 3 /\ tasksRun = <<>>
    /\ tagName # "current"

\* C7: the checkout stage with tag 'current' runs no command and registers
\* the one 'current' warning; with the current ref equal to the tag it runs
\* no git checkout and registers no warning; otherwise it runs `git checkout
\* <tag>`, once, and registers no warning.
C7_Checkout ==
    /\ [][(started' = Append(started, "checkoutTag") /\ tagName = "current") =>
            /\ cmds' = cmds /\ inflight' = inflight /\ promise' = "fulfilled"
            /\ warnings' = Append(warnings, CurrentWarning)]_vars
    /\ [][\A r \in settled : (r.cmd = GitCurrentRef /\ r \notin settled') =>
            /\ warnings' = warnings
            /\ IF r.out = <<tagName>>
               THEN cmds' = cmds /\ inflight' = inflight /\ promise' = "fulfilled"
               ELSE /\ cmds' = Append(cmds, GitCheckout(tagName))
                    /\ GitCheckout(tagName) \in inflight']_vars
    /\ [](/\ Cardinality(Checkouts) <= 1
          /\ \A i \in Checkouts : cmds[i].arg = tagName /\ cmds[i - 1] = GitCurrentRef
          /\ Count(warnings, CurrentWarning) <= 1
          /\ CurrentWarning \in Range(warnings) => tagName = "current"
          /\ tagName = "current" => Checkouts = {} /\ GitCurrentRef \notin Range(cmds))

C7_Witness ==
    /\ stage = "checkoutTag" /\ promise = "fulfilled" /\ tagName = "v1.3.0"
    /\ Last(cmds) = GitCurrentRef /\ Checkouts = {} /\ warnings = <<>>

FlagNames == {"allow-pending", "no-test", "no-lint", "no-build"}
IsFlag(t) == ToLowerCase(t) \in FlagNames
NonFlags(opts) == {i \in 1..Len(opts) : ~IsFlag(opts[i])}
HasFlag(opts, f) == \E i \in 1..Len(opts) : ToLowerCase(opts[i]) = f
LastNonFlag(opts) ==
    IF NonFlags(opts) = {} THEN ""
    ELSE opts[CHOOSE i \in NonFlags(opts) : \A j \in NonFlags(opts) : j <= i]
\* A non-flag token comes after a non-empty non-flag token.
SecondTag(opts) == \E i, j \in NonFlags(opts) : i < j /\ opts[i] # ""
IsUsageError ==
    /\ pc' = "exited" /\ exitCode' = 1 /\ errCalls' = 1
    /\ started' = <<>> /\ cmds' = <<>> /\ inflight' = {} /\ tasksRun' = <<>>
ParsedAs(opts) ==
    /\ allowPending' = HasFlag(opts, "allow-pending")
    /\ noTest' = HasFlag(opts, "no-test")
    /\ noLint' = HasFlag(opts, "no-lint")
    /\ noBuild' = HasFlag(opts, "no-build")
    /\ tagName' = LastNonFlag(opts)
    /\ pc' = "chain"

\* C8 as stated: parsing any token list but a sole help never makes a flag
\* token the tag name, is a usage error (exit 1, no stage, no subprocess) when
\* the list holds two or more non-flag tokens, and otherwise sets each flag
\* that occurs (in any case) and takes the non-flag token as the tag name.
C8_TwoNonFlagsIsError ==
    [][(pc = "idle" /\ ~IsHelp(options)) =>
         /\ ~IsFlag(tagName')
         /\ IF Cardinality(NonFlags(options)) >= 2
            THEN IsUsageError
            ELSE ParsedAs(options)]_vars

\* C8 amended: the usage error is raised exactly when a non-flag token comes
\* after a non-empty non-flag token (so for two or more non-empty non-flag
\* tokens); otherwise each flag that occurs is set and the last non-flag token
\* is the tag name, spelled as given.
C8_OptionParsing ==
    [][(pc = "idle" /\ ~IsHelp(options)) =>
         /\ ~IsFlag(tagName')
         /\ IF SecondTag(options) THEN IsUsageError ELSE ParsedAs(options)
         /\ Cardinality({i \in NonFlags(options) : options[i] # ""}) >= 2
              => IsUsageError]_vars

C8_Witness ==
    /\ pc = "exited" /\ errCalls = 1 /\ exitCode = 1 /\ stage = "none"
    /\ started = <<>> /\ cmds = <<>> /\ ~Falsy(tagName)
    /\ report = ErrorReport(Str(TagAlreadySet), "undefined")

\* C9 as stated: the process exits with code 0 or 1 only.
C9_ExitZeroOrOne == pc = "exited" => exitCode \in {0, 1}

\* C9 amended: the exit code is 0 exactly when done got a non-empty package
\* name; a failure exits with 1, except that a test/lint/build stage rejecting
\* with a number exits with that number.
C9_ExitCodes ==
    pc = "exited" =>
        /\ exitCode = 0 <=> (stage = "done" /\ errCalls = 0 /\ value.lines # <<>>)
        /\ exitCode # 0 =>
             IF errCalls = 1 /\ value.type = "number"
             THEN exitCode = value.num /\ stage \in TaskStages
             ELSE exitCode = 1

C9_Witness ==
    /\ pc = "exited" /\ stage = "runTests" /\ value = Num(MaxExitCode)
    /\ exitCode = MaxExitCode /\ exitCode > 1

\* C10: currentTask is the last task started (skipped tasks leave it alone); a
\* numeric rejection comes from a test/lint/build stage that was not skipped,
\* and handleError then exits with that number and reports that stage's task
\* as failed; any other rejection exits with 1 and reports the error's message
\* or the value itself.
C10_ErrorAttribution ==
    /\ currentTask = IF tasksRun = <<>> THEN "undefined" ELSE Last(tasksRun)
    /\ (promise = "rejected" /\ value.type = "number") =>
          /\ stage \in TaskStages /\ ~SkipFlag(stage)
          /\ currentTask = TaskOf(stage)
    /\ (pc = "exited" /\ errCalls = 1) =>
          IF value.type = "number"
          THEN /\ exitCode = value.num
               /\ report = [fmt |-> "Error: Task '%s' failed.", arg |-> TaskOf(stage)]
          ELSE /\ exitCode = 1
               /\ report.fmt = "%s"
               /\ report.arg = IF stage = "none" THEN TagAlreadySet ELSE value.text

C10_Witness ==
    /\ pc = "exited" /\ errCalls = 1 /\ stage = "runBuild" /\ noLint /\ ~noTest
    /\ value.type = "number" /\ exitCode = value.num
    /\ report.arg = "Build" /\ tasksRun = <<"Test", "Build">>

SoleHelp(opts) == Len(opts) = 1 /\ opts[1] \in {"help", "Help", "HELP"}
Untouched ==
    /\ ~allowPending /\ ~noTest /\ ~noLint /\ ~noBuild /\ tagName = ""
    /\ started = <<>> /\ cmds = <<>> /\ tasksRun = <<>> /\ inflight = {}
    /\ errCalls = 0 /\ stage = "none" /\ warnings = <<>>

\* C11: an invocation with the single token help (in any case) only prints
\* usage: options, stages, subprocesses and tasks stay untouched, the process
\* does not exit and nothing happens afterwards; a help token among other
\* tokens starts no usage output and is handled as a tag name (it becomes the
\* tag name, or the invocation is the usage error of a second tag name).
C11_HelpOnly ==
    /\ [][pc = "idle" =>
            IF SoleHelp(options)
            THEN pc' = "usage"
            ELSE /\ pc' # "usage"
                 /\ \A i \in 1..Len(options) :
                      ToLowerCase(options[i]) = "help" =>
                          \/ pc' = "chain" /\ tagName' = options[i]
                          \/ pc' = "exited" /\ exitCode' = 1 /\ errCalls' = 1]_vars
    /\ [](pc = "usage" => Untouched)
    /\ [][pc # "usage"]_vars

C11_Witness == pc = "usage" /\ options = <<>> /\ Untouched

NotSkipped == SelectSeq(<<"runTests", "runLint", "runBuild">>, LAMBDA fn : ~SkipFlag(fn))

\* C15: the process exits with 0 only from done with a non-empty npm pack
\* result, after every stage was started in order and none was rejected, with
\* each non-skipped task run and nothing left in flight; an empty npm pack
\* result exits with 1.
C15_SuccessNeedsPackage ==
    /\ (pc = "exited" /\ exitCode = 0) =>
          /\ stage = "done" /\ started = StageOrder /\ errCalls = 0
          /\ promise = "fulfilled" /\ value.type = "stdout" /\ value.lines # <<>>
          /\ Last(cmds) = NpmPack /\ Count(cmds, GitStatus) = 1
          /\ ~Falsy(tagName)
          /\ Len(tasksRun) = Len(NotSkipped)
          /\ \A i \in 1..Len(NotSkipped) : tasksRun[i] = TaskOf(NotSkipped[i])
          /\ inflight = {} /\ settled = {}
    /\ (pc = "exited" /\ stage = "done" /\ value.lines = <<>>) => exitCode = 1

C15_Witness ==
    /\ pc = "exited" /\ exitCode = 0 /\ stage = "done" /\ noLint /\ ~noTest /\ ~noBuild
    /\ tasksRun = <<"Test", "Build">> /\ value.lines # <<>>

StageStep ==
    \/ CheckPendingChanges \/ CheckoutTag \/ RunTests \/ RunLint \/ RunBuild
    \/ BuildPackage \/ Done \/ HandleError

\* C16: when everything launched settles, every invocation but the sole help
\* reaches the process exit; and while a subprocess or task has not settled
\* the pipeline stays where it is: no stage, done or handleError can run, and
\* the only step possible is that subprocess's or task's callback.
C16_ExitsUnlessHung ==
    /\ (pc = "idle" /\ ~SoleHelp(options)) ~> (pc = "exited")
    /\ (pc = "chain") ~> (pc = "exited")
    /\ []((pc = "chain" /\ inflight # {}) => ~ENABLED StageStep)
    /\ [][inflight # {} =>
            /\ started' = started /\ cmds' = cmds /\ tasksRun' = tasksRun
            /\ pc' = "chain" /\ inflight' = {}]_vars

C16_Witness ==
    /\ pc = "chain" /\ stage = "checkoutTag" /\ promise = "pending"
    /\ inflight = {GitCheckout(tagName)} /\ settled = {} /\ ~ENABLED StageStep

IsBlank(l) == \A i \in 1..Len(l) : l[i] = ""
\* t is l without the blank lines at its two ends.
IsTrimOf(t, l) ==
    /\ t = <<>> \/ (t[1] # "" /\ t[Len(t)] # "")
    /\ \E i \in 1..Len(l) + 1, j \in 0..Len(l) :
         /\ t = SubSeq(l, i, j)
         /\ IsBlank(SubSeq(l, 1, i - 1)) /\ IsBlank(SubSeq(l, j + 1, Len(l)))

\* C17: the promise of exec is settled by the subprocess callback, once: it
\* is rejected (with err, else with the stderr text) when the subprocess
\* reported an error or wrote to stderr, whatever it wrote to stdout, and
\* otherwise fulfilled with stdout trimmed of surrounding whitespace.
C17_ExecSettlesOnce ==
    /\ []((promise = "pending") <=> (inflight # {}))
    /\ [](promise # "pending" =>
            IF child.err # NoValue \/ child.stderr # ""
            THEN /\ promise = "rejected"
                 /\ value = IF child.err # NoValue THEN child.err ELSE Str(child.stderr)
            ELSE /\ promise = "fulfilled" /\ value.type = "stdout"
                 /\ IsTrimOf(value.lines, child.stdout)
                 /\ child.stdout = <<>> => value.lines = <<>>)
    /\ [][promise = "pending" /\ promise' # "pending"]_vars

C17_Witness ==
    /\ promise = "rejected" /\ child.err = NoValue /\ child.stderr # ""
    /\ child.stdout # <<>> /\ ~IsBlank(child.stdout) /\ value = Str(child.stderr)

\* ---------------------------------------------------------------------
\* C12: every accessor that marshal installed, on the global window or on win,
\* carries the configurable and enumerable flags of the own property that same
\* object had under that key before, and both flags true where it had none;
\* once init has returned, every marshaled key is such an accessor on both.
Marshaled == {"tinyHippos", "XMLHttpRequest"} \cup sandbox

C12_FlagsPreserved ==
    \A o \in Windows : \A k \in Marshaled :
        /\ bpc = "ready" => props[<<o, k>>].kind = "accessor"
        /\ props[<<o, k>>].kind = "accessor" =>
              /\ props[<<o, k>>].configurable = FlagFrom(prior[<<o, k>>], "configurable")
              /\ props[<<o, k>>].enumerable = FlagFrom(prior[<<o, k>>], "enumerable")

\* init returned, and a key's accessors differ in a flag between the two objects
C12_Witness ==
    /\ bpc = "ready"
    /\ prior[<<"window", "XMLHttpRequest">>].kind = "data"
    /\ ~props[<<"window", "XMLHttpRequest">>].enumerable
    /\ prior[<<"win", "XMLHttpRequest">>].kind = "none"
    /\ props[<<"win", "XMLHttpRequest">>].enumerable
    /\ "cordova" \in sandbox
    /\ prior[<<"win", "cordova">>].kind = "data"
    /\ ~props[<<"win", "cordova">>].enumerable
    /\ props[<<"window", "cordova">>].enumerable

\* ---------------------------------------------------------------------
\* C13: once init has returned, reading a marshaled key through either object
\* gives the value last written to that key through either object, and before
\* any write the value that was handed to marshal; a step that writes one key
\* leaves what every other key reads as unchanged.
Passed(k) ==
    IF k \in SandboxKeys THEN SandboxValue(k)
    ELSE IF prior[<<"window", k>>].kind = "none" THEN "undefined"
    ELSE HostValue("window", k)

Current(k) == IF lastWritten[k] = NoWrite THEN Passed(k) ELSE lastWritten[k]

C13_SharedCell ==
    [][/\ (bpc' = "ready" =>
              \A o \in Windows : \A k \in {"tinyHippos", "XMLHttpRequest"} \cup sandbox' :
                  Get(props', cells', o, k) = Current(k)')
       /\ (bpc = "ready" =>
              \A o \in Windows : \A k \in Marshaled :
                  lastWritten'[k] = lastWritten[k] =>
                      Get(props', cells', o, k) = Get(props, cells, o, k))]_vars

\* a key was written through one object, then another value through the other
C13_Witness ==
    /\ bpc = "ready"
    /\ lastWritten["XMLHttpRequest"] = "y"
    /\ lastWritten["tinyHippos"] = "x"
    /\ "cordova" \in sandbox /\ lastWritten["cordova"] = NoWrite
    /\ Get(props, cells, "win", "XMLHttpRequest") = "y"
    /\ Get(props, cells, "window", "tinyHippos") = "x"

\* ---------------------------------------------------------------------
\* C19: from init on, window() is win, document() is doc and xhr() is the
\* value win.XMLHttpRequest had before any marshaling, whatever is later
\* written to XMLHttpRequest through either object.
PriorXhr ==
    IF prior[<<"win", "XMLHttpRequest">>].kind = "none" THEN "undefined"
    ELSE HostValue("win", "XMLHttpRequest")

C19_Captured ==
    bpc \in {"ready", "threw"} =>
        /\ bwin = "win" /\ bdoc = "doc"
        /\ bxhr = PriorXhr

\* XMLHttpRequest was overwritten after init and now reads differently from xhr()
C19_Witness ==
    /\ bpc = "ready"
    /\ bxhr = "win.XMLHttpRequest"
    /\ lastWritten["XMLHttpRequest"] = "x"
    /\ Get(props, cells, "win", "XMLHttpRequest") = "x"
\* ---------------------------------------------------------------------
\* C14 as stated: the chain is clean, pack, hosted and then compress exactly
\* when opts.compress is truthy, the stages run in that order, and every run
\* of _done comes after the last stage of the chain has finished.
ChainAsAsked ==
    bstate \notin {"off", "new"} =>
        /\ SubSeq(chain, 1, 3) = <<"clean", "pack", "hosted">>
        /\ ("compress" \in Range(chain)) = (bopts.given /\ Truthy(bopts.compress))
        /\ Len(chain) = IF "compress" \in Range(chain) THEN 4 ELSE 3
        /\ "compress" \in Range(chain) => chain[4] = "compress"

InChainOrder ==
    /\ IsPrefix(ran, chain)
    /\ IsPrefix(finished, ran)
    /\ Len(ran) <= Len(finished) + 1

C14_DoneAfterLastStage ==
    /\ ChainAsAsked
    /\ InChainOrder
    /\ \A i \in DOMAIN doneRuns : doneRuns[i].after = chain

\* C14: the chain is clean, pack, hosted and then compress exactly when
\* opts.compress is truthy, and the stages run in that order, one at a time;
\* _done runs without an error only after the last stage has finished, and it
\* runs with an error as soon as a stage throws inside the build call, with
\* that stage and the ones after it unfinished and the later ones never run.
C14_StagesThenDone ==
    /\ ChainAsAsked
    /\ InChainOrder
    /\ \A i \in DOMAIN doneRuns :
          IF doneRuns[i].error
          THEN /\ doneRuns[i].after # chain
               /\ finished = doneRuns[i].after
               /\ Len(ran) = Len(finished) + 1
               /\ behave[Last(ran)] = "throw"
          ELSE doneRuns[i].after = chain

\* compress was asked for, a stage deferred, and _done ran after all four
C14_Witness ==
    /\ bstate = "completed"
    /\ bopts.compress = "1"
    /\ chain = <<"clean", "pack", "hosted", "compress">>
    /\ behave["clean"] = "async" /\ behave["compress"] = "async"
    /\ finished = chain
    /\ doneRuns = <<[error |-> FALSE, after |-> chain]>>

====
